---- MODULE Spec2Model ----
(***************************************************************************)
(* Fragment Dependency & Execution Engine of octotools:                    *)
(*   models/semantic_types.py     Dependency Graph, topological_sort       *)
(*   models/semantic.py           SemanticCodeFragment                     *)
(*   models/semantic_registry.py  SemanticRegistry                         *)
(*   models/executor.py           SemanticExecutor                         *)
(*   models/memory.py             Memory (Workflow Tracker)                *)
(*   solver.py                    SemanticSolver.solve                     *)
(*   tools/qiskit_code_assembler  _sort_fragments_by_dependencies          *)
(*                                                                         *)
(* Python values are modelled as follows.  A dict is a function whose      *)
(* DOMAIN is its key set; the Registry's dict, whose iteration order is    *)
(* observable, is a sequence of fragments in insertion order.  Optional    *)
(* values are sequences of length 0 (None) or 1.  Heterogeneous values     *)
(* (block outcomes) are records tagged with their Python type.             *)
(***************************************************************************)
EXTENDS Integers, Sequences, FiniteSets, TLC

VARIABLES
    fragments,          \* SemanticRegistry.fragments (insertion-ordered dict)
    dependencies,       \* SemanticRegistry.dependencies
    global_variables,   \* SemanticExecutor.global_variables
    actions,            \* Memory.actions
    semantic_fragments, \* Memory.semantic_fragments
    semantic_workflow,  \* Memory.semantic_workflow
    workflow_progress,  \* Memory.workflow_progress
    available_tools,    \* Initializer.available_tools
    pc,                 \* control point of solve / execute_tool_command
    step_count,         \* solve: step_count
    solves,             \* number of solve() calls started on this solver
    planned,            \* source text planned in the session, see Cost
    stopped_by,         \* history: what ended the step loop of the last solve()
    tool_name,          \* solve: tool_name of the current step
    sub_goal,           \* solve: sub_goal of the current step
    command,            \* solve: command (source text) of the current step
    command_blocks,     \* execute_tool_command: blocks not yet run
    executions,         \* execute_tool_command: value returned / accumulated
    result,             \* execute_with_timeout: result of the current block
    registering,        \* fragment being registered by the current block
    execution_context,  \* _execute_fragment_for_variables: execution_context
    merge_idx,          \* _execute_fragment_for_variables: loop position
    enhanced_context,   \* execute_with_timeout: enhanced_context of the current block
    alarm,              \* SIGALRM armed by signal.alarm(max_time)
    block_pre,          \* history: Registry and Namespace when the alarm was armed
    fired,              \* history: the alarm fired while running the current block
    blocks_run,         \* history: blocks the current command has started
    sentinels,          \* history: blocks of the current command that ended in the timeout sentinel
    alarms,             \* history: times the alarm fired while the current command ran
    last_registered,    \* history: per type, the fragment last passed to register_fragment
    register_order,     \* history: the registered types, least recently registered first
    register_calls,     \* history: number of register_fragment calls
    sort_input,         \* _sort_fragments_by_dependencies: fragments argument
    sort_remaining,     \* topological_sort: remaining
    sort_result,        \* topological_sort: result
    sort_output,        \* _sort_fragments_by_dependencies: returned list
    sort_pc             \* control point of the sort

vars == <<fragments, dependencies, global_variables, actions, semantic_fragments,
          semantic_workflow, workflow_progress, available_tools, pc,
          step_count, solves, planned, stopped_by, tool_name, sub_goal,
          command, command_blocks, executions, result, registering,
          execution_context, merge_idx, enhanced_context, alarm, block_pre, fired,
          blocks_run, sentinels, alarms, last_registered, register_order,
          register_calls, sort_input,
          sort_remaining, sort_result, sort_output, sort_pc>>

registry_vars == <<fragments, dependencies, last_registered, register_order, register_calls>>
executor_vars == <<global_variables, command_blocks, executions, result,
                   registering, execution_context, merge_idx, enhanced_context, alarm,
                   block_pre, fired, blocks_run, sentinels, alarms>>
memory_vars == <<actions, semantic_fragments, semantic_workflow, workflow_progress>>
solver_vars == <<available_tools, pc, step_count, solves, planned, stopped_by, tool_name,
                 sub_goal, command>>
sort_vars == <<sort_input, sort_remaining, sort_result, sort_output, sort_pc>>

(***************************************************************************)
(* Bounds of the exploration.                                              *)
(***************************************************************************)
MaxSteps == 2      \* SemanticSolver.max_steps of the explored solver
MaxSolves == 2     \* solve() calls made on one solver
MaxPlanned == 2    \* source text planned over the whole session, see Cost
MaxSortLen == 3    \* fragments handed to the assembler
MaxRegisterCalls == 4  \* register_fragment calls made on a Registry used on its own
MaxExecutorCalls == 3  \* execute_tool_command calls made on an executor used on its own
MaxTrackedTypes == 3   \* types added to a Memory used on its own

(***************************************************************************)
(* semantic_types.py                                                       *)
(***************************************************************************)
SPEC == "spec"
HAMILTONIAN == "hamiltonian"
ANSATZ == "ansatz"
OPTIMIZER == "optimizer"
ESTIMATOR == "estimator"
VQE_EXECUTION == "vqe_execution"
COMPLETE_SOLUTION == "complete_solution"

\* DEPENDENCIES.keys(), in the order of the dict literal
DependencyKeys ==
    <<SPEC, HAMILTONIAN, ANSATZ, OPTIMIZER, ESTIMATOR, VQE_EXECUTION, COMPLETE_SOLUTION>>

SemanticTypeSet == {DependencyKeys[i] : i \in 1..Len(DependencyKeys)}

DEPENDENCIES ==
    [t \in SemanticTypeSet |->
        CASE t = SPEC -> <<>>
          [] t = HAMILTONIAN -> <<SPEC>>
          [] t = ANSATZ -> <<SPEC>>
          [] t = OPTIMIZER -> <<SPEC>>
          [] t = ESTIMATOR -> <<SPEC>>
          [] t = VQE_EXECUTION -> <<HAMILTONIAN, ANSATZ, OPTIMIZER, ESTIMATOR>>
          [] t = COMPLETE_SOLUTION -> <<VQE_EXECUTION>>]

\* dependencies.get(semantic_type, [])
DependenciesGet(t) == IF t \in DOMAIN DEPENDENCIES THEN DEPENDENCIES[t] ELSE <<>>

Range(s) == {s[i] : i \in 1..Len(s)}

\* [x for x in s if P(x)]
RECURSIVE FilterSeq(_, _)
FilterSeq(s, keep) ==
    IF s = <<>> THEN <<>>
    ELSE IF Head(s) \in keep THEN <<Head(s)>> \o FilterSeq(Tail(s), keep)
         ELSE FilterSeq(Tail(s), keep)

\* every order in which Python may iterate over the set S
Orderings(S) ==
    {f \in [1..Cardinality(S) -> S] : \A x \in S : \E i \in 1..Cardinality(S) : f[i] = x}

\* the history of registrations after type t is registered
MoveToEnd(order, t) == Append(FilterSeq(order, Range(order) \ {t}), t)

(***************************************************************************)
(* semantic.py: SemanticCodeFragment.  The code of a fragment is the       *)
(* program it holds: the names it binds, the value it binds them to, and   *)
(* whether running it raises.                                              *)
(***************************************************************************)
EmptyDict == [k \in {} |-> 0]

GoodCode(v) == [raises |-> FALSE, binds |-> {"spec_ir", "hamiltonian", "tmp"}, val |-> v]
BadCode == [raises |-> TRUE, binds |-> {}, val |-> 0]
Codes == {GoodCode(1), BadCode}

\* the dataclass constructor followed by __post_init__
SemanticCodeFragment(code, stype, variable_name, deps, provides, tool_source) ==
    [code |-> code,
     semantic_type |-> stype,
     variable_name |-> variable_name,
     dependencies |-> deps,
     provides |-> IF variable_name # "" /\ variable_name \notin Range(provides)
                  THEN Append(provides, variable_name) ELSE provides,
     tool_source |-> tool_source,
     is_executed |-> FALSE,
     execution_context |-> EmptyDict]

(***************************************************************************)
(* semantic_registry.py: SemanticRegistry                                  *)
(***************************************************************************)
\* fragments.keys()
FragmentKeys(frs) == {frs[i].semantic_type : i \in 1..Len(frs)}

\* semantic_type in self.fragments
HasFragment(frs, t) == t \in FragmentKeys(frs)

\* register_fragment that keeps the fragment already stored for the type
RegisterFragment_KeepFirst(frs, f) ==
    IF \E i \in 1..Len(frs) : frs[i].semantic_type = f.semantic_type
    THEN frs
    ELSE Append(frs, f)

\* self.fragments[fragment.semantic_type] = fragment
RegisterFragment(frs, f) ==
    IF \E i \in 1..Len(frs) : frs[i].semantic_type = f.semantic_type
    THEN [i \in 1..Len(frs) |-> IF frs[i].semantic_type = f.semantic_type THEN f ELSE frs[i]]
    ELSE Append(frs, f)

\* self.fragments.get(semantic_type): <<>> for None
GetFragment(frs, t) ==
    IF HasFragment(frs, t)
    THEN <<frs[CHOOSE i \in 1..Len(frs) : frs[i].semantic_type = t]>>
    ELSE <<>>

RECURSIVE MissingDeps(_, _)
MissingDeps(required, frs) ==
    IF required = <<>> THEN <<>>
    ELSE IF ~HasFragment(frs, Head(required))
         THEN <<Head(required)>> \o MissingDeps(Tail(required), frs)
         ELSE MissingDeps(Tail(required), frs)

\* check_dependencies that is satisfied by any one registered dependency
CheckDependencies_AnyRegistered(frs, t) ==
    LET missing == MissingDeps(DependenciesGet(t), frs)
    IN [ok |-> Len(missing) = 0 \/ Len(missing) < Len(DependenciesGet(t)),
        missing |-> missing]

CheckDependencies(frs, t) ==
    LET missing == MissingDeps(DependenciesGet(t), frs)
    IN [ok |-> Len(missing) = 0, missing |-> missing]

RECURSIVE NextPossibleFrom(_, _)
NextPossibleFrom(keys, frs) ==
    IF keys = <<>> THEN <<>>
    ELSE IF ~HasFragment(frs, Head(keys)) /\ CheckDependencies(frs, Head(keys)).ok
         THEN <<Head(keys)>> \o NextPossibleFrom(Tail(keys), frs)
         ELSE NextPossibleFrom(Tail(keys), frs)

\* get_next_possible_types without the `not in self.fragments` test
GetNextPossibleTypes_NoRegisteredTest(frs) ==
    FilterSeq(DependencyKeys, {t \in SemanticTypeSet : CheckDependencies(frs, t).ok})

GetNextPossibleTypes(frs) == NextPossibleFrom(DependencyKeys, frs)

GetCompletionStatus(frs) == [t \in SemanticTypeSet |-> HasFragment(frs, t)]

(***************************************************************************)
(* Source text.  A command is a sequence of segments; a segment is either  *)
(* a run of statements without the result-binding statement ("plain") or   *)
(* statements ending in `execution = tool.execute(...)`, whose kind says    *)
(* what tool.execute does there.                                           *)
(***************************************************************************)
NoCode == [raises |-> FALSE, binds |-> {}, val |-> 0]

Segment(kind, stype, code) == [kind |-> kind, stype |-> stype, code |-> code]

NativeTypes == {SPEC, HAMILTONIAN}

Segments ==
    {Segment("fragment", t, c) : t \in NativeTypes, c \in Codes}
    \cup {Segment("legacy", "", GoodCode(1))}
    \cup {Segment(k, "", NoCode) : k \in {"legacy_nocode", "raw", "none", "raise", "plain"}}

SourceText(segs) == [segs |-> segs]

Commands(n) == {SourceText(segs) : segs \in UNION {[1..m -> Segments] : m \in 0..n}}

SubGoals == {"build the model"}

\* what a command takes from the exploration budget: its segments, one if empty
Cost(cmd) == IF Len(cmd.segs) = 0 THEN 1 ELSE Len(cmd.segs)

SPEC_TOOL == "Qiskit_TFIM_Spec_Tool"
HAMILTONIAN_TOOL == "Qiskit_TFIM_Hamiltonian_Tool"
ANSATZ_TOOL == "Qiskit_TFIM_Ansatz_Tool"
OPTIMIZER_TOOL == "Qiskit_TFIM_Optimizer_Tool"
VQE_TOOL == "Qiskit_VQE_Tool"
ASSEMBLER_TOOL == "qiskit_Code_Assembler_Tool"

MappedTools == {SPEC_TOOL, HAMILTONIAN_TOOL, ANSATZ_TOOL, OPTIMIZER_TOOL, VQE_TOOL, ASSEMBLER_TOOL}

\* a str entry is a one-element sequence tagged islist = FALSE
TOOL_SEMANTIC_MAPPING ==
    [t \in MappedTools |->
        CASE t = SPEC_TOOL -> [islist |-> FALSE, types |-> <<SPEC>>]
          [] t = HAMILTONIAN_TOOL -> [islist |-> FALSE, types |-> <<HAMILTONIAN>>]
          [] t = ANSATZ_TOOL -> [islist |-> FALSE, types |-> <<ANSATZ>>]
          [] t = OPTIMIZER_TOOL -> [islist |-> TRUE, types |-> <<OPTIMIZER, ESTIMATOR>>]
          [] t = VQE_TOOL -> [islist |-> FALSE, types |-> <<VQE_EXECUTION>>]
          [] t = ASSEMBLER_TOOL -> [islist |-> FALSE, types |-> <<COMPLETE_SOLUTION>>]]

(***************************************************************************)
(* Values a block can leave in `execution`, and what execute_tool_command  *)
(* returns.                                                                *)
(***************************************************************************)
FragmentValue(f) == [tag |-> "fragment", frag |-> f]
ListValue(d) == [tag |-> "list", first |-> d]
RawValue == [tag |-> "raw"]
NoneValue == [tag |-> "none"]
StrValue(text) == [tag |-> "str", text |-> text]

LegacyRecord(has_code, code) == [has_code |-> has_code, code |-> code]

TimeoutSentinel == StrValue("Execution timed out after max_time seconds")
NoExecutionCaptured == StrValue("No execution captured from block")

ListReturn(items) == [islist |-> TRUE, items |-> items, text |-> ""]
ErrorReturn(msg) == [islist |-> FALSE, items |-> <<>>, text |-> msg]
ToolLoadError == ErrorReturn("Error in execute_tool_command: tool could not be loaded")
BlockError == ErrorReturn("Error in execute_tool_command: exception raised by a block")

(***************************************************************************)
(* executor.py: SemanticExecutor                                           *)
(***************************************************************************)
\* split_commands: each match runs lazily up to the next result-binding
\* statement; text after the last one matches nothing
RECURSIVE SplitFrom(_, _)
SplitFrom(segs, acc) ==
    IF segs = <<>> THEN <<>>
    ELSE IF Head(segs).kind = "plain" THEN SplitFrom(Tail(segs), Append(acc, Head(segs)))
         ELSE <<Append(acc, Head(segs))>> \o SplitFrom(Tail(segs), <<>>)

SplitCommands(cmd) == SplitFrom(cmd.segs, <<>>)

\* the statement that binds `execution` in a block
Binding(block) == block[Len(block)]

VarNameMap(stype) ==
    CASE stype = SPEC -> "spec_ir"
      [] stype = HAMILTONIAN -> "hamiltonian"
      [] stype = ANSATZ -> "ansatz"
      [] stype = OPTIMIZER -> "optimizer"
      [] stype = VQE_EXECUTION -> "vqe_result"
      [] OTHER -> "result"

\* _wrap_legacy_result that wraps the record of an unmapped tool as type "unknown"
WrapLegacyResult_UnknownType(d, tool) ==
    IF ~d.has_code THEN <<>>
    ELSE LET semantic_type == IF tool \in DOMAIN TOOL_SEMANTIC_MAPPING
                              THEN TOOL_SEMANTIC_MAPPING[tool].types[1] ELSE "unknown"
             variable_name == VarNameMap(semantic_type)
         IN <<SemanticCodeFragment(d.code, semantic_type, variable_name,
                                   DependenciesGet(semantic_type), <<variable_name>>, tool)>>

\* _wrap_legacy_result: <<>> for None
WrapLegacyResult(d, tool) ==
    IF tool \notin DOMAIN TOOL_SEMANTIC_MAPPING \/ ~d.has_code THEN <<>>
    ELSE LET semantic_type == TOOL_SEMANTIC_MAPPING[tool].types[1]
             variable_name == VarNameMap(semantic_type)
         IN <<SemanticCodeFragment(d.code, semantic_type, variable_name,
                                   DependenciesGet(semantic_type), <<variable_name>>, tool)>>

\* the Fragment a tool returns from execute (BaseTool.create_semantic_fragment)
NativeFragment(seg, tool) ==
    SemanticCodeFragment(seg.code, seg.stype, VarNameMap(seg.stype),
                         DependenciesGet(seg.stype), <<VarNameMap(seg.stype)>>, tool)

\* the value exec(block) leaves in enhanced_context['execution']
BlockValue(block, tool) ==
    LET seg == Binding(block)
    IN CASE seg.kind = "fragment" -> FragmentValue(NativeFragment(seg, tool))
         [] seg.kind = "legacy" -> ListValue(LegacyRecord(TRUE, seg.code))
         [] seg.kind = "legacy_nocode" -> ListValue(LegacyRecord(FALSE, NoCode))
         [] seg.kind = "raw" -> RawValue
         [] OTHER -> NoneValue

\* the fragment execute_with_timeout registers for a result: <<>> if none
FragmentToRegister(res, tool) ==
    IF res.tag = "fragment" THEN <<res.frag>>
    ELSE IF res.tag = "list" THEN WrapLegacyResult(res.first, tool)
    ELSE <<>>

\* exec(fragment.code, globals(), execution_context) when it does not raise
ExecCode(code, ctx) ==
    [k \in DOMAIN ctx \cup code.binds |-> IF k \in code.binds THEN code.val ELSE ctx[k]]

\* a merge that copies the whole execution_context
MergeVariable_WholeContext(gv, var_name, ctx) ==
    [k \in DOMAIN gv \cup DOMAIN ctx |-> IF k \in DOMAIN ctx THEN ctx[k] ELSE gv[k]]

\* a merge that keeps the value a name already has
MergeVariable_KeepExisting(gv, var_name, ctx) ==
    IF var_name \in DOMAIN ctx /\ var_name \notin DOMAIN gv
    THEN [k \in DOMAIN gv \cup {var_name} |-> IF k = var_name THEN ctx[var_name] ELSE gv[k]]
    ELSE gv

\* self.global_variables[var_name] = execution_context[var_name]
MergeVariable(gv, var_name, ctx) ==
    IF var_name \in DOMAIN ctx
    THEN [k \in DOMAIN gv \cup {var_name} |-> IF k = var_name THEN ctx[var_name] ELSE gv[k]]
    ELSE gv

\* fragment.execution_context = execution_context; fragment.is_executed = True
MarkExecuted(f, ctx) == [f EXCEPT !.execution_context = ctx, !.is_executed = TRUE]

\* executions.append(result), with the replacement of None
AppendExecution(ex, res) ==
    ListReturn(Append(ex.items, IF res.tag = "none" THEN NoExecutionCaptured ELSE res))

\* Python objects a block context holds
ToolObject(tool) == [obj |-> "tool", name |-> tool]
FragmentObject(f) == [obj |-> "fragment", frag |-> f]
Value(v) == [obj |-> "value", val |-> v]
FragmentList(frs) == [obj |-> "list", items |-> frs]

\* {**a, **b}
DictMerge(a, b) == [k \in DOMAIN a \cup DOMAIN b |-> IF k \in DOMAIN b THEN b[k] ELSE a[k]]

\* a dict of plain values as context objects
Boxed(d) == [k \in DOMAIN d |-> Value(d[k])]

\* the provides entries found in the fragment's execution_context
Exported(f) ==
    [n \in Range(f.provides) \cap DOMAIN f.execution_context |-> f.execution_context[n]]

\* SemanticRegistry.get_available_variables: the loop over self.fragments.values()
RECURSIVE AvailableFrom(_, _)
AvailableFrom(frs, variables) ==
    IF frs = <<>> THEN variables
    ELSE LET f == Head(frs)
         IN AvailableFrom(Tail(frs),
                          IF f.execution_context # EmptyDict
                          THEN DictMerge(variables, Exported(f))
                          ELSE variables)

GetAvailableVariables(frs) == AvailableFrom(frs, EmptyDict)

\* names _build_semantic_context never copies from an execution_context
\* (none of the explored codes binds a name starting with "__")
SkippedNames == {"builtins", "globals", "locals"}

\* one iteration of the loop of _build_semantic_context over fragments.items()
ContextWith(context, f) ==
    LET aliases == [k \in {f.semantic_type \o "_fragment", f.semantic_type} |->
                        FragmentObject(f)]
        c2 == DictMerge(context, aliases)
        c3 == IF f.execution_context # EmptyDict
              THEN DictMerge(c2, Boxed(Exported(f)))
              ELSE c2
        rest == [k \in DOMAIN f.execution_context \ SkippedNames |->
                    f.execution_context[k]]
    IN \* a name already in the context is kept
       DictMerge(Boxed(rest), c3)

RECURSIVE SemanticContextFrom(_, _)
SemanticContextFrom(frs, context) ==
    IF frs = <<>> THEN context
    ELSE SemanticContextFrom(Tail(frs), ContextWith(context, Head(frs)))

BuildSemanticContext(frs) ==
    DictMerge(SemanticContextFrom(frs, EmptyDict),
              [k \in {"semantic_fragments"} |-> FragmentList(frs)])

\* local_context = {'tool': tool}
LocalContext(tool) == [k \in {"tool"} |-> tool]

\* enhanced_context = {'tool': tool, **global_variables, **local_context,
\*                     **_build_semantic_context()}
EnhancedContext(tool, gv, local_context, semantic_context) ==
    DictMerge(DictMerge(DictMerge([k \in {"tool"} |-> tool], Boxed(gv)), local_context),
              semantic_context)

(***************************************************************************)
(* memory.py: Memory.  Operators take and return the Memory object as the  *)
(* record of its four fields.                                              *)
(***************************************************************************)
MemoryObject == [actions |-> actions, semantic_fragments |-> semantic_fragments,
                 semantic_workflow |-> semantic_workflow,
                 workflow_progress |-> workflow_progress]

\* d[k] = v
DictSet(d, k, v) == [x \in DOMAIN d \cup {k} |-> IF x = k THEN v ELSE d[x]]

\* _init_workflow_progress
InitWorkflowProgress == [t \in SemanticTypeSet |-> FALSE]

\* a or b, for strings
StrOr(a, b) == IF a # "" THEN a ELSE b

\* f"Generate {fragment.semantic_type} fragment"
GenerateSubGoal(stype) ==
    CASE stype = SPEC -> "Generate spec fragment"
      [] stype = HAMILTONIAN -> "Generate hamiltonian fragment"
      [] stype = ANSATZ -> "Generate ansatz fragment"
      [] stype = OPTIMIZER -> "Generate optimizer fragment"
      [] stype = ESTIMATOR -> "Generate estimator fragment"
      [] stype = VQE_EXECUTION -> "Generate vqe_execution fragment"
      [] stype = COMPLETE_SOLUTION -> "Generate complete_solution fragment"
      [] OTHER -> "Generate fragment"

\* f"Generated semantic fragment: {fragment.semantic_type}"
GeneratedCommand(stype) == [generated |-> stype]

ActionRecord(tool, sg, cmd, res) ==
    [tool_name |-> tool, sub_goal |-> sg, command |-> cmd, result |-> res]

\* isinstance(result, list) and len(result) > 0 and isinstance(result[0], SemanticCodeFragment)
FirstIsFragment(res) ==
    /\ "islist" \in DOMAIN res
    /\ res.islist
    /\ Len(res.items) > 0
    /\ res.items[1].tag = "fragment"

RECURSIVE AddAction(_, _, _, _, _, _)

\* add_semantic_fragment that moves a type produced again to the end of the history
AddSemanticFragment_MovesToEnd(mem, fragment, step, tool, sg) ==
    LET stype == fragment.semantic_type
        m1 == [mem EXCEPT
                 !.semantic_fragments = DictSet(@, stype, fragment),
                 !.workflow_progress = DictSet(@, stype, TRUE),
                 !.semantic_workflow = MoveToEnd(@, stype)]
    IN IF step # <<>>
       THEN AddAction(m1, step[1], StrOr(tool, fragment.tool_source),
                      StrOr(sg, GenerateSubGoal(stype)), GeneratedCommand(stype),
                      FragmentValue(fragment))
       ELSE m1

\* add_semantic_fragment; step is <<>> for step_count = None
AddSemanticFragment(mem, fragment, step, tool, sg) ==
    LET stype == fragment.semantic_type
        m1 == [mem EXCEPT
                 !.semantic_fragments = DictSet(@, stype, fragment),
                 !.workflow_progress = DictSet(@, stype, TRUE),
                 !.semantic_workflow = IF stype \in Range(@) THEN @ ELSE Append(@, stype)]
    IN IF step # <<>>
       THEN AddAction(m1, step[1], StrOr(tool, fragment.tool_source),
                      StrOr(sg, GenerateSubGoal(stype)), GeneratedCommand(stype),
                      FragmentValue(fragment))
       ELSE m1

AddAction(mem, step, tool, sg, cmd, res) ==
    LET m1 == [mem EXCEPT !.actions = DictSet(@, step, ActionRecord(tool, sg, cmd, res))]
    IN IF FirstIsFragment(res)
       THEN AddSemanticFragment(m1, res.items[1].frag, <<step>>, tool, sg)
       ELSE m1

\* a float that is the quotient of two integers
Ratio(num, den) == [num |-> num, den |-> den]

\* get_completion_percentage that counts the keys of the progress map
GetCompletionPercentage_CountsKeys(progress) ==
    LET total == Cardinality(DOMAIN progress)
    IN IF total > 0 THEN Ratio(total * 100, total) ELSE Ratio(0, 1)

\* get_completion_percentage
GetCompletionPercentage(progress) ==
    LET completed == Cardinality({k \in DOMAIN progress : progress[k]})
        total == Cardinality(DOMAIN progress)
    IN IF total > 0 THEN Ratio(completed * 100, total) ELSE Ratio(0, 1)

\* get_next_required_types
GetNextRequiredTypes(progress) ==
    LET completed == {t \in DOMAIN progress : progress[t]}
    IN FilterSeq(DependencyKeys,
                 {t \in SemanticTypeSet : t \notin completed
                                          /\ Range(DEPENDENCIES[t]) \subseteq completed})

(***************************************************************************)
(* State after SemanticSolver.__init__                                     *)
(***************************************************************************)
NoFragment == <<>>

IdleExecutor ==
    /\ command_blocks = <<>>
    /\ executions = ListReturn(<<>>)
    /\ result = NoneValue
    /\ registering = NoFragment
    /\ execution_context = EmptyDict
    /\ merge_idx = 0
    /\ enhanced_context = EmptyDict
    /\ alarm = FALSE
    /\ block_pre = [fragments |-> <<>>, global_variables |-> EmptyDict]
    /\ fired = FALSE
    /\ blocks_run = 0
    /\ sentinels = 0
    /\ alarms = 0

IdleSort ==
    /\ sort_input = <<>>
    /\ sort_remaining = {}
    /\ sort_result = <<>>
    /\ sort_output = <<>>
    /\ sort_pc = "idle"

\* everything but the dependency table the Registry is constructed over
SessionInit ==
    /\ fragments = <<>>
    /\ last_registered = EmptyDict
    /\ register_order = <<>>
    /\ register_calls = 0
    /\ global_variables = EmptyDict
    /\ actions = EmptyDict
    /\ semantic_fragments = EmptyDict
    /\ semantic_workflow = <<>>
    /\ workflow_progress = InitWorkflowProgress
    /\ available_tools = {HAMILTONIAN_TOOL}
    /\ pc = "idle"
    /\ step_count = 0
    /\ solves = 0
    /\ planned = 0
    /\ stopped_by = ""
    /\ tool_name = ""
    /\ sub_goal = ""
    /\ command = SourceText(<<>>)
    /\ IdleExecutor
    /\ IdleSort

\* self.dependencies = SemanticTypes.DEPENDENCIES
Init ==
    /\ dependencies = DEPENDENCIES
    /\ SessionInit

(***************************************************************************)
(* solver.py: SemanticSolver.solve                                         *)
(***************************************************************************)
\* a solve() that starts from a fresh Registry, Namespace and Memory
SolveStart_ResetsSession ==
    /\ pc = "idle"
    /\ solves < MaxSolves
    /\ solves' = solves + 1
    /\ step_count' = 1
    /\ stopped_by' = ""
    /\ pc' = "loop"
    /\ fragments' = <<>>
    /\ last_registered' = EmptyDict
    /\ register_order' = <<>>
    /\ global_variables' = EmptyDict
    /\ actions' = EmptyDict
    /\ semantic_fragments' = EmptyDict
    /\ semantic_workflow' = <<>>
    /\ workflow_progress' = InitWorkflowProgress
    /\ UNCHANGED <<available_tools, planned, tool_name, sub_goal, command>>
    /\ UNCHANGED <<dependencies, register_calls, command_blocks, executions, result,
                   registering, execution_context, merge_idx, enhanced_context, alarm,
                   block_pre, fired, blocks_run, sentinels, alarms, sort_vars>>

\* solve() is called on the solver; the step loop starts at step 1
SolveStart ==
    /\ pc = "idle"
    /\ solves < MaxSolves
    /\ solves' = solves + 1
    /\ step_count' = 1
    /\ stopped_by' = ""
    /\ pc' = "loop"
    /\ UNCHANGED <<available_tools, planned, tool_name, sub_goal, command>>
    /\ UNCHANGED <<registry_vars, executor_vars, memory_vars, sort_vars>>

\* the loop ends and _generate_final_output runs
LeaveLoop(reason) ==
    /\ stopped_by' = reason
    /\ pc' = "idle"
    /\ UNCHANGED <<available_tools, step_count, solves, planned, tool_name, sub_goal, command>>
    /\ UNCHANGED <<registry_vars, executor_vars, memory_vars, sort_vars>>

\* while step_count <= self.max_steps
StepBudgetExhausted ==
    /\ pc = "loop"
    /\ step_count > MaxSteps
    /\ LeaveLoop("max_steps")

\* time.time() - start_time > self.max_time
TimeLimitReached ==
    /\ pc = "loop"
    /\ step_count <= MaxSteps
    /\ LeaveLoop("max_time")

\* tool_name is None or "No matched tool" in tool_name
InvalidToolSelection ==
    /\ pc = "loop"
    /\ step_count <= MaxSteps
    /\ LeaveLoop("invalid_tool")

\* tool_name not in self.initializer.available_tools
ToolNotAvailable ==
    /\ pc = "loop"
    /\ step_count <= MaxSteps
    /\ LeaveLoop("tool_not_available")

\* generate_next_step, extract_context_subgoal_and_tool, generate_tool_command,
\* extract_explanation_and_command: the planner's choice of this step
PlanStep(tool, sg, cmd) ==
    /\ pc = "loop"
    /\ step_count <= MaxSteps
    /\ tool \in available_tools
    /\ planned + Cost(cmd) <= MaxPlanned
    /\ planned' = planned + Cost(cmd)
    /\ tool_name' = tool
    /\ sub_goal' = sg
    /\ command' = cmd
    /\ pc' = "call"
    /\ UNCHANGED <<available_tools, step_count, solves, stopped_by>>
    /\ UNCHANGED <<registry_vars, executor_vars, memory_vars, sort_vars>>

(***************************************************************************)
(* executor.py: execute_tool_command                                       *)
(***************************************************************************)
\* the tool is imported and instantiated, the command is split
LoadTool ==
    /\ pc = "call"
    /\ command_blocks' = SplitCommands(command)
    /\ executions' = ListReturn(<<>>)
    /\ blocks_run' = 0
    /\ sentinels' = 0
    /\ alarms' = 0
    /\ pc' = "next"
    /\ UNCHANGED <<enhanced_context, global_variables, result, registering, execution_context,
                   merge_idx, alarm, block_pre, fired>>
    /\ UNCHANGED <<available_tools, step_count, solves, planned, stopped_by,
                   tool_name, sub_goal, command>>
    /\ UNCHANGED <<registry_vars, memory_vars, sort_vars>>

\* a load failure after which the blocks are run all the same
LoadToolFails_RunsBlocks ==
    /\ pc = "call"
    /\ command_blocks' = SplitCommands(command)
    /\ executions' = ToolLoadError
    /\ blocks_run' = 0
    /\ sentinels' = 0
    /\ alarms' = 0
    /\ pc' = "next"
    /\ UNCHANGED <<enhanced_context, global_variables, result, registering, execution_context,
                   merge_idx, alarm, block_pre, fired>>
    /\ UNCHANGED <<available_tools, step_count, solves, planned, stopped_by,
                   tool_name, sub_goal, command>>
    /\ UNCHANGED <<registry_vars, memory_vars, sort_vars>>

\* import_module, getattr or the constructor raises: the outer except returns
LoadToolFails ==
    /\ pc = "call"
    /\ command_blocks' = <<>>
    /\ executions' = ToolLoadError
    /\ blocks_run' = 0
    /\ sentinels' = 0
    /\ alarms' = 0
    /\ pc' = "executed"
    /\ UNCHANGED <<enhanced_context, global_variables, result, registering, execution_context,
                   merge_idx, alarm, block_pre, fired>>
    /\ UNCHANGED <<available_tools, step_count, solves, planned, stopped_by,
                   tool_name, sub_goal, command>>
    /\ UNCHANGED <<registry_vars, memory_vars, sort_vars>>

solve_frame == <<available_tools, step_count, solves, planned, stopped_by,
                 tool_name, sub_goal, command>>

\* execute_with_timeout is entered for the next block: signal.alarm(self.max_time)
ArmBlock ==
    /\ pc = "next"
    /\ command_blocks # <<>>
    /\ enhanced_context' = EnhancedContext(ToolObject(tool_name), global_variables,
                                            LocalContext(ToolObject(tool_name)),
                                            BuildSemanticContext(fragments))
    /\ alarm' = TRUE
    /\ fired' = FALSE
    /\ block_pre' = [fragments |-> fragments, global_variables |-> global_variables]
    /\ blocks_run' = blocks_run + 1
    /\ result' = NoneValue
    /\ registering' = NoFragment
    /\ execution_context' = EmptyDict
    /\ merge_idx' = 0
    /\ pc' = "armed"
    /\ UNCHANGED <<global_variables, command_blocks, executions, sentinels, alarms>>
    /\ UNCHANGED <<solve_frame, registry_vars, memory_vars, sort_vars>>

\* the for loop is over: return executions
ReturnExecutions ==
    /\ pc = "next"
    /\ command_blocks = <<>>
    /\ pc' = "executed"
    /\ UNCHANGED <<solve_frame, registry_vars, executor_vars, memory_vars, sort_vars>>

\* execute_with_timeout returns res for the current block and the loop appends it
FinishBlock(res) ==
    /\ alarm' = FALSE
    /\ executions' = AppendExecution(executions, res)
    /\ command_blocks' = Tail(command_blocks)
    /\ pc' = "next"

\* except TimeoutError: return the sentinel
ReturnSentinel ==
    /\ fired' = TRUE
    /\ alarms' = alarms + 1
    /\ sentinels' = sentinels + 1
    /\ FinishBlock(TimeoutSentinel)

\* exec(block) returns; the result is classified and its fragment registered
RunBlock ==
    /\ pc = "armed"
    /\ Binding(Head(command_blocks)).kind # "raise"
    /\ LET res == BlockValue(Head(command_blocks), tool_name)
           fr == FragmentToRegister(res, tool_name)
       IN /\ result' = res
          /\ registering' = fr
          /\ IF fr # NoFragment
             THEN /\ fragments' = RegisterFragment(fragments, fr[1])
                  /\ last_registered' = DictSet(last_registered, fr[1].semantic_type, fr[1])
                  /\ register_order' = MoveToEnd(register_order, fr[1].semantic_type)
                  /\ register_calls' = register_calls + 1
                  /\ UNCHANGED dependencies
                  /\ pc' = "registered"
             ELSE /\ UNCHANGED registry_vars
                  /\ pc' = "post"
    /\ UNCHANGED <<enhanced_context, global_variables, command_blocks, executions, execution_context,
                   merge_idx, alarm, block_pre, fired, blocks_run, sentinels, alarms>>
    /\ UNCHANGED <<solve_frame, memory_vars, sort_vars>>

\* exec(block) raises: execute_with_timeout does not catch it, the outer
\* except of execute_tool_command returns the error string
BlockRaises ==
    /\ pc = "armed"
    /\ Binding(Head(command_blocks)).kind = "raise"
    /\ alarm' = FALSE
    /\ executions' = BlockError
    /\ command_blocks' = <<>>
    /\ pc' = "executed"
    /\ UNCHANGED <<enhanced_context, global_variables, result, registering, execution_context,
                   merge_idx, block_pre, fired, blocks_run, sentinels, alarms>>
    /\ UNCHANGED <<solve_frame, registry_vars, memory_vars, sort_vars>>

\* SIGALRM while exec(block) runs
TimeoutInBlock ==
    /\ pc = "armed"
    /\ alarm
    /\ ReturnSentinel
    /\ UNCHANGED <<enhanced_context, global_variables, result, registering, execution_context,
                   merge_idx, block_pre, blocks_run>>
    /\ UNCHANGED <<solve_frame, registry_vars, memory_vars, sort_vars>>

\* SIGALRM after register_fragment returned and before the try of
\* _execute_fragment_for_variables is entered
TimeoutAfterRegister ==
    /\ pc = "registered"
    /\ alarm
    /\ ReturnSentinel
    /\ UNCHANGED <<enhanced_context, global_variables, result, registering, execution_context,
                   merge_idx, block_pre, blocks_run>>
    /\ UNCHANGED <<solve_frame, registry_vars, memory_vars, sort_vars>>

\* the handler's TimeoutError is an Exception: `except Exception` of
\* _execute_fragment_for_variables swallows it
SwallowTimeout ==
    /\ alarm
    /\ alarm' = FALSE
    /\ fired' = TRUE
    /\ alarms' = alarms + 1
    /\ pc' = "post"
    /\ UNCHANGED <<enhanced_context, global_variables, command_blocks, executions, result, registering,
                   execution_context, merge_idx, block_pre, blocks_run, sentinels>>
    /\ UNCHANGED <<solve_frame, registry_vars, memory_vars, sort_vars>>

\* SIGALRM while exec(fragment.code) runs
TimeoutInFragmentCode ==
    /\ pc = "registered"
    /\ SwallowTimeout

\* exec(fragment.code) raises
FragmentCodeRaises ==
    /\ pc = "registered"
    /\ registering[1].code.raises
    /\ pc' = "post"
    /\ UNCHANGED <<solve_frame, registry_vars, executor_vars, memory_vars, sort_vars>>

\* exec(fragment.code) returns
FragmentCodeRuns ==
    /\ pc = "registered"
    /\ ~registering[1].code.raises
    /\ execution_context' = ExecCode(registering[1].code, global_variables)
    /\ merge_idx' = 1
    /\ pc' = "merging"
    /\ UNCHANGED <<enhanced_context, global_variables, command_blocks, executions, result, registering,
                   alarm, block_pre, fired, blocks_run, sentinels, alarms>>
    /\ UNCHANGED <<solve_frame, registry_vars, memory_vars, sort_vars>>

\* one iteration of `for var_name in fragment.provides`
MergeStep ==
    /\ pc = "merging"
    /\ merge_idx <= Len(registering[1].provides)
    /\ global_variables' = MergeVariable(global_variables,
                                         registering[1].provides[merge_idx],
                                         execution_context)
    /\ merge_idx' = merge_idx + 1
    /\ UNCHANGED <<enhanced_context, command_blocks, executions, result, registering, execution_context,
                   alarm, block_pre, fired, blocks_run, sentinels, alarms>>
    /\ UNCHANGED <<pc, solve_frame, registry_vars, memory_vars, sort_vars>>

\* the object `old` becomes `new` wherever the Registry refers to it
UpdateObject(frs, old, new) == [i \in 1..Len(frs) |-> IF frs[i] = old THEN new ELSE frs[i]]

\* after the loop: the fragment object is marked executed
CaptureDone ==
    /\ pc = "merging"
    /\ merge_idx > Len(registering[1].provides)
    /\ LET old == registering[1]
           new == MarkExecuted(old, execution_context)
       IN /\ registering' = <<new>>
          /\ fragments' = UpdateObject(fragments, old, new)
          /\ last_registered' = DictSet(last_registered, old.semantic_type, new)
          /\ UNCHANGED <<dependencies, register_order, register_calls>>
          /\ result' = IF result.tag = "fragment" THEN FragmentValue(new) ELSE result
    /\ pc' = "post"
    /\ UNCHANGED <<enhanced_context, global_variables, command_blocks, executions, execution_context,
                   merge_idx, alarm, block_pre, fired, blocks_run, sentinels, alarms>>
    /\ UNCHANGED <<solve_frame, memory_vars, sort_vars>>

\* SIGALRM inside the merge loop or before the fragment is marked executed
TimeoutInCapture ==
    /\ pc = "merging"
    /\ SwallowTimeout

\* SIGALRM after register_semantic_fragment returned, before signal.alarm(0)
TimeoutBeforeDisarm ==
    /\ pc = "post"
    /\ alarm
    /\ ReturnSentinel
    /\ UNCHANGED <<enhanced_context, global_variables, result, registering, execution_context,
                   merge_idx, block_pre, blocks_run>>
    /\ UNCHANGED <<solve_frame, registry_vars, memory_vars, sort_vars>>

\* signal.alarm(0); return result
BlockReturns ==
    /\ pc = "post"
    /\ FinishBlock(result)
    /\ UNCHANGED <<enhanced_context, global_variables, result, registering, execution_context,
                   merge_idx, block_pre, fired, blocks_run, sentinels, alarms>>
    /\ UNCHANGED <<solve_frame, registry_vars, memory_vars, sort_vars>>

(***************************************************************************)
(* solver.py: the rest of the loop body                                    *)
(***************************************************************************)
\* self.memory.add_action(step_count, tool_name, sub_goal, command, executions)
RecordStep ==
    /\ pc = "executed"
    /\ LET m == AddAction(MemoryObject, step_count, tool_name, sub_goal, command, executions)
       IN /\ actions' = m.actions
          /\ semantic_fragments' = m.semantic_fragments
          /\ semantic_workflow' = m.semantic_workflow
          /\ workflow_progress' = m.workflow_progress
    /\ pc' = "verify"
    /\ UNCHANGED <<solve_frame, registry_vars, executor_vars, sort_vars>>

\* conclusion == 'STOP'
ConcludeStop ==
    /\ pc = "verify"
    /\ LeaveLoop("stop")

\* a loop body that ends without counting the step
ConcludeContinue_NoIncrement ==
    /\ pc = "verify"
    /\ pc' = "loop"
    /\ UNCHANGED <<available_tools, step_count, solves, planned, stopped_by, tool_name,
                   sub_goal, command>>
    /\ UNCHANGED <<registry_vars, executor_vars, memory_vars, sort_vars>>

\* step_count += 1
ConcludeContinue ==
    /\ pc = "verify"
    /\ step_count' = step_count + 1
    /\ pc' = "loop"
    /\ UNCHANGED <<available_tools, solves, planned, stopped_by, tool_name, sub_goal, command>>
    /\ UNCHANGED <<registry_vars, executor_vars, memory_vars, sort_vars>>

Plan == \E tool \in available_tools, sg \in SubGoals, cmd \in Commands(MaxPlanned - planned) :
            PlanStep(tool, sg, cmd)

Next ==
    \/ SolveStart
    \/ StepBudgetExhausted
    \/ TimeLimitReached
    \/ InvalidToolSelection
    \/ ToolNotAvailable
    \/ Plan
    \/ LoadTool
    \/ LoadToolFails
    \/ ArmBlock
    \/ ReturnExecutions
    \/ RunBlock
    \/ BlockRaises
    \/ TimeoutInBlock
    \/ TimeoutAfterRegister
    \/ TimeoutInFragmentCode
    \/ FragmentCodeRaises
    \/ FragmentCodeRuns
    \/ MergeStep
    \/ CaptureDone
    \/ TimeoutInCapture
    \/ TimeoutBeforeDisarm
    \/ BlockReturns
    \/ RecordStep
    \/ ConcludeStop
    \/ ConcludeContinue

Spec == Init /\ [][Next]_vars

(***************************************************************************)
(* The solver over the commands a planner writes for the enabled tool:     *)
(* every block binds `execution`, and tool.execute returns a spec          *)
(* Fragment, returns a list of records, or raises.                         *)
(***************************************************************************)
StepSegments ==
    {Segment("fragment", SPEC, c) : c \in Codes}
    \cup {Segment("legacy", "", GoodCode(1)), Segment("raise", "", NoCode)}

StepCommands(n) == {SourceText(segs) : segs \in UNION {[1..m -> StepSegments] : m \in 0..n}}

PlanBlocks == \E tool \in available_tools, sg \in SubGoals, cmd \in StepCommands(MaxPlanned - planned) :
                  PlanStep(tool, sg, cmd)

NextSteps ==
    \/ SolveStart
    \/ StepBudgetExhausted
    \/ TimeLimitReached
    \/ InvalidToolSelection
    \/ ToolNotAvailable
    \/ PlanBlocks
    \/ LoadTool
    \/ LoadToolFails
    \/ ArmBlock
    \/ ReturnExecutions
    \/ RunBlock
    \/ BlockRaises
    \/ TimeoutInBlock
    \/ TimeoutAfterRegister
    \/ TimeoutInFragmentCode
    \/ FragmentCodeRaises
    \/ FragmentCodeRuns
    \/ MergeStep
    \/ CaptureDone
    \/ TimeoutInCapture
    \/ TimeoutBeforeDisarm
    \/ BlockReturns
    \/ RecordStep
    \/ ConcludeStop
    \/ ConcludeContinue

SpecSteps == Init /\ [][NextSteps]_vars

(***************************************************************************)
(* The Registry used on its own: register_fragment called with any         *)
(* fragment, in any order.                                                 *)
(***************************************************************************)
RegistryFragments ==
    {SemanticCodeFragment(c, t, VarNameMap(t), DependenciesGet(t), <<VarNameMap(t)>>, "")
        : t \in SemanticTypeSet, c \in Codes}

\* SemanticRegistry.register_fragment(fragment)
RegisterCall(f) ==
    /\ pc = "idle"
    /\ solves = 0
    /\ register_calls < MaxRegisterCalls
    /\ fragments' = RegisterFragment(fragments, f)
    /\ last_registered' = DictSet(last_registered, f.semantic_type, f)
    /\ register_order' = MoveToEnd(register_order, f.semantic_type)
    /\ register_calls' = register_calls + 1
    /\ UNCHANGED dependencies
    /\ UNCHANGED <<solver_vars, executor_vars, memory_vars, sort_vars>>

NextRegistry == \E f \in RegistryFragments : RegisterCall(f)

SpecRegistry == Init /\ [][NextRegistry]_vars

(***************************************************************************)
(* The executor used on its own: execute_tool_command called with a        *)
(* command of at most one block, by a caller other than solve.             *)
(* Fragments of the types estimator and complete_solution both have the    *)
(* primary variable "result".                                              *)
(***************************************************************************)
GENERALIST_TOOL == "Generalist_Solution_Generator_Tool"

ExecutorTools == {HAMILTONIAN_TOOL, OPTIMIZER_TOOL, GENERALIST_TOOL}

\* code that binds the names `result` and `tool`
SharedCode(v) == [raises |-> FALSE, binds |-> {"result", "tool"}, val |-> v]

\* blocks whose tool.execute returns a Fragment, or raises
NativeSegments ==
    {Segment("fragment", t, SharedCode(v)) : t \in {ESTIMATOR, COMPLETE_SOLUTION}, v \in {1, 2}}
    \cup {Segment("fragment", ESTIMATOR, BadCode), Segment("raise", "", NoCode)}

\* blocks whose tool.execute returns a list of records
LegacySegments == {Segment("legacy", "", GoodCode(1)), Segment("legacy_nocode", "", NoCode)}

\* the calls made: every tool returns the legacy shape; the tool outside the
\* tool-to-type table also returns Fragments, raises, or gets an empty command
ExecutorCalls ==
    {<<t, SourceText(<<seg>>)>> : t \in ExecutorTools, seg \in LegacySegments}
    \cup {<<GENERALIST_TOOL, SourceText(<<seg>>)>> : seg \in NativeSegments}
    \cup {<<GENERALIST_TOOL, SourceText(<<>>)>>}

\* executor.execute_tool_command(tool, cmd) is called
ExecuteCall(tool, cmd) ==
    /\ pc = "idle"
    /\ solves = 0
    /\ planned < MaxExecutorCalls
    /\ planned' = planned + 1
    /\ tool_name' = tool
    /\ command' = cmd
    /\ pc' = "call"
    /\ UNCHANGED <<available_tools, step_count, solves, stopped_by, sub_goal>>
    /\ UNCHANGED <<registry_vars, executor_vars, memory_vars, sort_vars>>

\* execute_tool_command has returned: its locals are gone
ExecuteReturn ==
    /\ pc = "executed"
    /\ solves = 0
    /\ tool_name' = ""
    /\ command' = SourceText(<<>>)
    /\ command_blocks' = <<>>
    /\ result' = NoneValue
    /\ registering' = NoFragment
    /\ execution_context' = EmptyDict
    /\ merge_idx' = 0
    /\ enhanced_context' = EmptyDict
    /\ executions' = ListReturn(<<>>)
    /\ block_pre' = [fragments |-> <<>>, global_variables |-> EmptyDict]
    /\ fired' = FALSE
    /\ blocks_run' = 0
    /\ sentinels' = 0
    /\ alarms' = 0
    /\ pc' = "idle"
    /\ UNCHANGED <<global_variables, alarm>>
    /\ UNCHANGED <<available_tools, step_count, solves, planned, stopped_by, sub_goal>>
    /\ UNCHANGED <<registry_vars, memory_vars, sort_vars>>

NextExecutor ==
    \/ \E call \in ExecutorCalls : ExecuteCall(call[1], call[2])
    \/ LoadTool
    \/ LoadToolFails
    \/ ArmBlock
    \/ ReturnExecutions
    \/ RunBlock
    \/ BlockRaises
    \/ TimeoutInBlock
    \/ TimeoutAfterRegister
    \/ TimeoutInFragmentCode
    \/ FragmentCodeRaises
    \/ FragmentCodeRuns
    \/ MergeStep
    \/ CaptureDone
    \/ TimeoutInCapture
    \/ TimeoutBeforeDisarm
    \/ BlockReturns
    \/ ExecuteReturn

SpecExecutor == Init /\ [][NextExecutor]_vars

(***************************************************************************)
(* The Memory used on its own: add_semantic_fragment called with fragments *)
(* of any type, of the Dependency Graph or not, with or without a step.    *)
(***************************************************************************)
MemoryFragments ==
    {SemanticCodeFragment(GoodCode(1), t, VarNameMap(t), DependenciesGet(t),
                          <<VarNameMap(t)>>, SPEC_TOOL)
        : t \in SemanticTypeSet \cup {"unknown"}}

\* Memory.add_semantic_fragment(fragment, step_count)
AddSemanticFragmentCall(f, step) ==
    /\ pc = "idle"
    /\ solves = 0
    /\ Len(semantic_workflow) < MaxTrackedTypes
    /\ LET m == AddSemanticFragment(MemoryObject, f, step, "", "")
       IN /\ actions' = m.actions
          /\ semantic_fragments' = m.semantic_fragments
          /\ semantic_workflow' = m.semantic_workflow
          /\ workflow_progress' = m.workflow_progress
    /\ UNCHANGED <<solver_vars, registry_vars, executor_vars, sort_vars>>

NextMemory == \E f \in MemoryFragments, step \in {<<>>, <<1>>, <<2>>} : AddSemanticFragmentCall(f, step)

SpecMemory == Init /\ [][NextMemory]_vars

(***************************************************************************)
(* The Registry constructed over any dependency table:                     *)
(* SemanticTypes.DEPENDENCIES is a class attribute that __init__ reads     *)
(* when the Registry is built.                                             *)
(***************************************************************************)
ConfigTypes == {SPEC, HAMILTONIAN, ANSATZ}

\* the tables in which every type has at most one dependency
ConfigTables == [ConfigTypes -> {<<>>} \cup {<<t>> : t \in ConfigTypes}]

\* SemanticRegistry() over a table
InitConfig ==
    /\ dependencies \in ConfigTables
    /\ SessionInit

\* register_fragment with a fragment of type t made for the Registry's table
RegisterAgainst(t) ==
    RegisterCall(SemanticCodeFragment(GoodCode(1), t, VarNameMap(t), dependencies[t],
                                      <<VarNameMap(t)>>, ""))

NextConfig == \E t \in ConfigTypes : RegisterAgainst(t)

SpecConfig == InitConfig /\ [][NextConfig]_vars

(***************************************************************************)
(* semantic_types.py: topological_sort, as called by the assembler's       *)
(* _sort_fragments_by_dependencies.  `remaining` is a Python set of str:   *)
(* the order of `for stype in remaining` is any order.                     *)
(***************************************************************************)
\* position of a type name in lexicographic order, for min(remaining)
LexRank(t) ==
    CASE t = ANSATZ -> 1
      [] t = COMPLETE_SOLUTION -> 2
      [] t = ESTIMATOR -> 3
      [] t = HAMILTONIAN -> 4
      [] t = OPTIMIZER -> 5
      [] t = SPEC -> 6
      [] t = VQE_EXECUTION -> 7

\* a fallback that takes the lexicographically largest type
MinType_Largest(S) == CHOOSE t \in S : \A u \in S : LexRank(t) >= LexRank(u)

MinType(S) == CHOOSE t \in S : \A u \in S : LexRank(t) <= LexRank(u)

\* the types the inner for loop finds ready; SemanticTypes.DEPENDENCIES is
\* the object the Registry holds as self.dependencies
ReadyTypes(remaining) ==
    {t \in remaining :
        \A d \in Range(IF t \in DOMAIN dependencies THEN dependencies[t] ELSE <<>>) :
            d \notin remaining}

AssemblerFragment(t) ==
    SemanticCodeFragment(NoCode, t, VarNameMap(t), DependenciesGet(t), <<VarNameMap(t)>>, "")

\* lists of one to MaxSortLen fragments of distinct types, in any order
SortInputs ==
    {[i \in 1..Len(ts) |-> AssemblerFragment(ts[i])] :
        ts \in {f \in UNION {[1..m -> SemanticTypeSet] : m \in 1..MaxSortLen} :
                  \A i, j \in DOMAIN f : f[i] = f[j] => i = j}}

\* _sort_fragments_by_dependencies(fragments) calls topological_sort(fragment_types)
SortStart(frs) ==
    /\ sort_pc = "idle"
    /\ sort_input' = frs
    /\ sort_remaining' = {frs[i].semantic_type : i \in 1..Len(frs)}
    /\ sort_result' = <<>>
    /\ sort_output' = <<>>
    /\ sort_pc' = "sorting"
    /\ UNCHANGED <<solver_vars, registry_vars, executor_vars, memory_vars>>

\* one iteration of `while remaining`
SortRound ==
    /\ sort_pc = "sorting"
    /\ sort_remaining # {}
    /\ LET found == ReadyTypes(sort_remaining)
           ready == IF found = {} THEN {MinType(sort_remaining)} ELSE found
       IN \E order \in Orderings(ready) :
            /\ sort_result' = sort_result \o order
            /\ sort_remaining' = sort_remaining \ ready
    /\ UNCHANGED <<sort_input, sort_output, sort_pc>>
    /\ UNCHANGED <<solver_vars, registry_vars, executor_vars, memory_vars>>

\* type_to_fragment[stype] for the fragments list frs
TypeToFragment(frs, stype) ==
    frs[CHOOSE i \in 1..Len(frs) :
          /\ frs[i].semantic_type = stype
          /\ \A j \in 1..Len(frs) : frs[j].semantic_type = stype => j <= i]

\* topological_sort returns; the fragments are put in the order of sorted_types
SortFinish ==
    /\ sort_pc = "sorting"
    /\ sort_remaining = {}
    /\ sort_output' = [i \in 1..Len(sort_result) |-> TypeToFragment(sort_input, sort_result[i])]
    /\ sort_pc' = "done"
    /\ UNCHANGED <<sort_input, sort_remaining, sort_result>>
    /\ UNCHANGED <<solver_vars, registry_vars, executor_vars, memory_vars>>

NextSort ==
    \/ \E frs \in SortInputs : SortStart(frs)
    \/ SortRound
    \/ SortFinish

SpecSort == Init /\ [][NextSort]_vars

(***************************************************************************)
(* The assembler's sort over any dependency table in which every type has  *)
(* at most one dependency (a type may depend on itself, and types may      *)
(* depend on each other in a cycle), for lists in which a type may occur   *)
(* more than once.                                                         *)
(***************************************************************************)
\* lists of zero to MaxSortLen fragments of the types of the table
SortInputsOver(types) ==
    {[i \in 1..Len(ts) |-> AssemblerFragment(ts[i])] :
        ts \in UNION {[1..m -> types] : m \in 0..MaxSortLen}}

NextSortTables ==
    \/ \E frs \in SortInputsOver(ConfigTypes) : SortStart(frs)
    \/ SortRound
    \/ SortFinish

\* the while loop goes on while `remaining` is not empty, then the function returns
SpecSortTables == InitConfig /\ [][NextSortTables]_vars /\ WF_vars(SortRound) /\ WF_vars(SortFinish)

(***************************************************************************)
(* The executor's Registry filled through register_semantic_fragment with  *)
(* fragments of any provides list: an optimizer fragment that also         *)
(* provides `estimator`, estimator fragments, a spec fragment.             *)
(***************************************************************************)
\* code that binds the names `optimizer` and `estimator`
PairCode(v) == [raises |-> FALSE, binds |-> {"optimizer", "estimator"}, val |-> v]

ContextFragments ==
    {SemanticCodeFragment(PairCode(v), OPTIMIZER, "optimizer", DependenciesGet(OPTIMIZER),
                          <<"optimizer", "estimator">>, OPTIMIZER_TOOL) : v \in {1, 2}}
    \cup {SemanticCodeFragment(c, ESTIMATOR, "result", DependenciesGet(ESTIMATOR),
                               <<"result">>, OPTIMIZER_TOOL) : c \in {SharedCode(1), BadCode}}
    \cup {SemanticCodeFragment(GoodCode(1), SPEC, "spec_ir", DependenciesGet(SPEC),
                               <<"spec_ir">>, SPEC_TOOL)}

\* the loop `for var_name in fragment.provides` of _execute_fragment_for_variables
RECURSIVE MergeProvides(_, _, _)
MergeProvides(gv, provides, ctx) ==
    IF provides = <<>> THEN gv
    ELSE MergeProvides(MergeVariable(gv, Head(provides), ctx), Tail(provides), ctx)

\* the fragment object after _execute_fragment_for_variables
Executed(f, gv) == IF f.code.raises THEN f ELSE MarkExecuted(f, ExecCode(f.code, gv))

\* executor.register_semantic_fragment(f), called with no deadline armed
RegisterSemanticFragment(f) ==
    /\ pc = "idle"
    /\ solves = 0
    /\ register_calls < MaxRegisterCalls
    /\ fragments' = RegisterFragment(fragments, Executed(f, global_variables))
    /\ global_variables' = IF f.code.raises THEN global_variables
                           ELSE MergeProvides(global_variables, f.provides,
                                              ExecCode(f.code, global_variables))
    /\ last_registered' = DictSet(last_registered, f.semantic_type,
                                  Executed(f, global_variables))
    /\ register_order' = MoveToEnd(register_order, f.semantic_type)
    /\ register_calls' = register_calls + 1
    /\ UNCHANGED <<dependencies, command_blocks, executions, result, registering,
                   execution_context, merge_idx, enhanced_context, alarm, block_pre, fired,
                   blocks_run, sentinels, alarms>>
    /\ UNCHANGED <<solver_vars, memory_vars, sort_vars>>

NextContext == \E f \in ContextFragments : RegisterSemanticFragment(f)

SpecContext == Init /\ [][NextContext]_vars

(***************************************************************************)
(* Fragments constructed in the three ways of the repository, with any     *)
(* primary variable and any initial provides list, and registered.         *)
(***************************************************************************)
\* values of variable_name: the empty string, a name, another name
VariableNames == {"", "spec_ir", "energy"}

\* values of the provides argument
ProvidesLists == {<<>>, <<"spec_ir">>, <<"energy", "spec_ir">>}

\* BaseTool.create_semantic_fragment of a tool with the class attributes
\* semantic_type, dependencies, provides and the name tool
CreateSemanticFragment(stype, deps, provides, tool, code, variable_name) ==
    SemanticCodeFragment(code, stype, variable_name, deps,
                         IF provides # <<>> THEN provides ELSE <<variable_name>>, tool)

ConstructedFragments ==
    {SemanticCodeFragment(GoodCode(1), t, v, DependenciesGet(t), p, "")
        : t \in NativeTypes, v \in VariableNames, p \in ProvidesLists}
    \cup UNION {Range(WrapLegacyResult(LegacyRecord(TRUE, GoodCode(1)), tool))
                    : tool \in MappedTools}
    \cup {CreateSemanticFragment(COMPLETE_SOLUTION, <<VQE_EXECUTION>>, p, ASSEMBLER_TOOL,
                                 GoodCode(1), v)
            : v \in VariableNames, p \in {<<>>, <<"complete_code">>}}

NextFragments == \E f \in ConstructedFragments : RegisterCall(f)

SpecFragments == Init /\ [][NextFragments]_vars

(***************************************************************************)
(* Properties                                                              *)
(***************************************************************************)
\* the types with a fragment in the Registry, read off the state
Registered == {fragments[i].semantic_type : i \in 1..Len(fragments)}

\* the outcome the block that just finished contributed
LastOutcome == executions.items[Len(executions.items)]

BlockJustFinished == pc = "next" /\ blocks_run > 0

\* C1: a block during which the deadline fired ends in the timeout sentinel
\* and leaves the Registry and the Session Namespace as they were when its
\* deadline was armed.
C1_TimeoutLeavesStateUntouched ==
    (BlockJustFinished /\ fired) =>
        /\ LastOutcome = TimeoutSentinel
        /\ fragments = block_pre.fragments
        /\ global_variables = block_pre.global_variables

\* C2: after a step during which no deadline fired is recorded, the Tracker's
\* progress map and the Registry agree on every type of the Dependency Graph.
C2_TrackerAgreesWithRegistry ==
    (pc = "verify" /\ alarms = 0) =>
        \A t \in SemanticTypeSet : workflow_progress[t] <=> (t \in Registered)

\* b depends on a, directly or through other types
RECURSIVE DependsOn(_, _)
DependsOn(b, a) ==
    \/ a \in Range(DependenciesGet(b))
    \/ \E d \in Range(DependenciesGet(b)) : DependsOn(d, a)

\* C3: in the list the assembler's sort returns, a fragment comes before
\* every fragment whose type depends on its type directly or transitively.
C3_SortRespectsDependencies ==
    sort_pc = "done" =>
        \A i, j \in 1..Len(sort_output) :
            DependsOn(sort_output[j].semantic_type, sort_output[i].semantic_type) => i < j

\* C4: when the tool was loaded, execute_tool_command returns a list with one
\* outcome per block, having run every block, also when a block raised, and
\* the outcome of a raising block is an error string.
C4_BlockExceptionIsContained ==
    (pc = "executed" /\ executions # ToolLoadError) =>
        /\ executions.islist
        /\ blocks_run = Len(SplitCommands(command))
        /\ Len(executions.items) = Len(SplitCommands(command))
        /\ \A i \in 1..Len(executions.items) :
              Binding(SplitCommands(command)[i]).kind = "raise"
                  => executions.items[i].tag = "str"

\* C5: get_next_possible_types() is exactly the unregistered types whose
\* direct dependencies are all registered, holds no registered type, and on
\* the empty Registry is the types without dependencies.
C5_NextPossibleTypesExact ==
    LET possible == GetNextPossibleTypes(fragments)
    IN /\ Range(possible) =
            {t \in SemanticTypeSet :
                t \notin Registered /\ \A d \in Range(DEPENDENCIES[t]) : d \in Registered}
       /\ Len(possible) = Cardinality(Range(possible))
       /\ Range(possible) \cap Registered = {}
       /\ fragments = <<>> =>
            Range(possible) = {t \in SemanticTypeSet : DEPENDENCIES[t] = <<>>}

\* C5 witness: with four fragments registered, vqe_execution is the type ready next.
C5_Witness ==
    /\ {HAMILTONIAN, ANSATZ, OPTIMIZER, ESTIMATOR} \subseteq Registered
    /\ GetNextPossibleTypes(fragments) = <<SPEC, VQE_EXECUTION>>

\* C6: check_dependencies(t) is true iff every direct dependency of t is
\* complete in get_completion_status(), and its missing list is the
\* dependencies of t without a registered fragment.
C6_CheckDependenciesExact ==
    \A t \in SemanticTypeSet \cup {"unknown"} :
        LET checked == CheckDependencies(fragments, t)
        IN /\ checked.ok <=>
                \A d \in Range(DependenciesGet(t)) : GetCompletionStatus(fragments)[d]
           /\ Range(checked.missing) =
                {d \in Range(DependenciesGet(t)) : d \notin Registered}
           /\ Len(checked.missing) = Cardinality(Range(checked.missing))

\* C6 witness: vqe_execution has some dependencies registered and some missing,
\* while hamiltonian has all of its dependencies.
C6_Witness ==
    /\ CheckDependencies(fragments, VQE_EXECUTION).missing = <<ANSATZ, ESTIMATOR>>
    /\ CheckDependencies(fragments, HAMILTONIAN).ok
    /\ SPEC \in Registered

\* C7: a call that records a step adds one entry to the step log and leaves
\* every entry recorded before as it was.
C7_StepLogAppendOnly ==
    [][(pc = "executed" /\ pc' = "verify") =>
          /\ Cardinality(DOMAIN actions') = Cardinality(DOMAIN actions) + 1
          /\ \A k \in DOMAIN actions : actions'[k] = actions[k]]_vars

\* C8: after add_action returns, the entry of the step holds the tool name,
\* sub-goal, command and results it was called with.
C8_EntryHoldsWhatWasPassed ==
    pc = "verify" =>
        /\ step_count \in DOMAIN actions
        /\ actions[step_count] = ActionRecord(tool_name, sub_goal, command, executions)

\* C9: a command in which a block timed out still runs all of its blocks and
\* returns a list with one outcome for each.
C9_LaterBlocksRunAfterTimeout ==
    (pc = "executed" /\ sentinels > 0) =>
        /\ executions.islist
        /\ blocks_run = Len(SplitCommands(command))
        /\ Len(executions.items) = Len(SplitCommands(command))

\* C10: the Registry holds at most one fragment per type, the one passed to
\* the last register_fragment call for that type, and a type is complete in
\* get_completion_status() exactly from its first registration on.
C10_LastWriteWins ==
    /\ \A i, j \in 1..Len(fragments) :
          fragments[i].semantic_type = fragments[j].semantic_type => i = j
    /\ Registered = DOMAIN last_registered
    /\ \A t \in DOMAIN last_registered : GetFragment(fragments, t) = <<last_registered[t]>>
    /\ \A t \in SemanticTypeSet :
          GetCompletionStatus(fragments)[t] <=> (t \in DOMAIN last_registered)

\* C10 witness: a type was registered again, with a fragment of different code,
\* next to a type registered once.
C10_Witness ==
    /\ register_calls = 3
    /\ Len(fragments) = 2
    /\ fragments[1].semantic_type = SPEC
    /\ fragments[1].code = BadCode
    /\ last_registered[SPEC].code = BadCode
    /\ fragments[2].semantic_type = HAMILTONIAN

\* the block that just finished ran to its end without its deadline firing
BlockCompleted == BlockJustFinished /\ ~fired

\* C11: a block whose output is a list starting with a record registers a
\* fragment iff the tool is in the tool-to-type table and the record has the
\* key "Code"; the fragment has a type the table gives for the tool (for the
\* hamiltonian tool: type hamiltonian, primary variable "hamiltonian"), that
\* type's Dependency Graph entry, and the record's code.  Otherwise nothing is
\* registered and Registry and Namespace are unchanged.  In both cases the
\* block's outcome is the list itself.
C11_LegacyRecordIsAdapted ==
    (BlockCompleted /\ result.tag = "list") =>
        /\ LastOutcome = result
        /\ IF tool_name \in MappedTools /\ result.first.has_code
           THEN /\ registering # <<>>
                /\ LET t == registering[1].semantic_type
                   IN /\ t \in Range(TOOL_SEMANTIC_MAPPING[tool_name].types)
                      /\ tool_name = HAMILTONIAN_TOOL =>
                            (t = HAMILTONIAN /\ registering[1].variable_name = "hamiltonian")
                      /\ registering[1].dependencies = DEPENDENCIES[t]
                      /\ registering[1].code = result.first.code
                      /\ GetFragment(fragments, t) = registering
           ELSE /\ registering = <<>>
                /\ fragments = block_pre.fragments
                /\ global_variables = block_pre.global_variables

\* C11 witness: the hamiltonian tool returned a record with "Code", which was
\* registered as type hamiltonian and run.
C11_Witness ==
    /\ BlockCompleted
    /\ result.tag = "list"
    /\ tool_name = HAMILTONIAN_TOOL
    /\ result.first.has_code
    /\ HAMILTONIAN \in Registered
    /\ HAMILTONIAN \notin FragmentKeys(block_pre.fragments)
    /\ "hamiltonian" \in DOMAIN global_variables

\* the names of fragment f's provides that its code binds
ProvidedAndBound(f) == Range(f.provides) \cap f.code.binds

\* C12: a block whose output is a Fragment whose code runs without error
\* leaves the fragment registered under its type, and the Session Namespace
\* as it was before the block except for the names of provides the code
\* bound, which hold the value the code produced.
C12_FragmentMergesItsProvides ==
    (BlockCompleted /\ result.tag = "fragment" /\ ~result.frag.code.raises) =>
        LET f == result.frag
            pre == block_pre.global_variables
        IN /\ GetFragment(fragments, f.semantic_type) = <<f>>
           /\ DOMAIN global_variables = DOMAIN pre \cup ProvidedAndBound(f)
           /\ \A k \in DOMAIN global_variables :
                global_variables[k] = IF k \in ProvidedAndBound(f) THEN f.code.val ELSE pre[k]

\* C12 witness: a fragment providing `result` ran while the Namespace already
\* held `result`; its code also bound `tool`, which is not in provides.
C12_Witness ==
    /\ BlockCompleted
    /\ result.tag = "fragment"
    /\ result.frag.code = SharedCode(2)
    /\ "result" \in DOMAIN block_pre.global_variables
    /\ block_pre.global_variables["result"] = 1
    /\ global_variables["result"] = 2
    /\ "tool" \notin DOMAIN global_variables

\* C13: no step removes a key of the Session Namespace; a step that adds a key
\* or changes its value is the write of a fragment whose code ran without
\* error, provides the name and bound it, and writes the value the code
\* produced; and when a fragment's execution completes, every name it
\* provides and bound holds that value.
C13_NamespaceLastWriteWins ==
    [][/\ DOMAIN global_variables \subseteq DOMAIN global_variables'
       /\ \A k \in DOMAIN global_variables' :
            (k \notin DOMAIN global_variables \/ global_variables'[k] # global_variables[k]) =>
                /\ pc = "merging"
                /\ ~registering[1].code.raises
                /\ k \in ProvidedAndBound(registering[1])
                /\ global_variables'[k] = registering[1].code.val
       /\ (pc = "merging" /\ pc' = "post" /\ ~fired') =>
            \A k \in ProvidedAndBound(registering[1]) :
                /\ k \in DOMAIN global_variables'
                /\ global_variables'[k] = registering[1].code.val]_vars

\* C13 witness: `result` was written by the estimator fragment, then by the
\* complete_solution fragment, with `hamiltonian` written in between.
C13_Witness ==
    /\ pc = "idle"
    /\ register_order = <<ESTIMATOR, HAMILTONIAN, COMPLETE_SOLUTION>>
    /\ last_registered[ESTIMATOR].code = SharedCode(1)
    /\ last_registered[ESTIMATOR].is_executed
    /\ last_registered[COMPLETE_SOLUTION].code = SharedCode(2)
    /\ global_variables = [k \in {"hamiltonian", "result"} |-> IF k = "result" THEN 2 ELSE 1]

\* the positions in register_order of the fragments that expose the name n
Exposers(n) ==
    {i \in 1..Len(register_order) :
        LET f == GetFragment(fragments, register_order[i])[1]
        IN f.execution_context # EmptyDict /\ n \in DOMAIN Exported(f)}

\* the value of n in the fragment registered last among those exposing n
LatestExposed(n) ==
    LET i == CHOOSE x \in Exposers(n) : \A y \in Exposers(n) : y <= x
    IN Exported(GetFragment(fragments, register_order[i])[1])[n]

\* C14: a name exposed by two or more registered fragments has, in
\* get_available_variables() and in the semantic context of a block, the
\* value of the fragment among them that was registered last.
C14_LaterRegisteredWins ==
    \A n \in {"result", "hamiltonian", "spec_ir"} :
        Cardinality(Exposers(n)) >= 2 =>
            /\ GetAvailableVariables(fragments)[n] = LatestExposed(n)
            /\ BuildSemanticContext(fragments)[n] = Value(LatestExposed(n))

\* C15: in the context built for a block, every block-local binding of the
\* caller, the name `tool` among them, has the caller's value.
C15_LocalBindingsOverride ==
    pc = "armed" =>
        \A k \in DOMAIN LocalContext(ToolObject(tool_name)) :
            enhanced_context[k] = LocalContext(ToolObject(tool_name))[k]

\* the blocks of a source text: each result-binding statement with the text
\* before it, and the text after the last one, if any
RECURSIVE SourceBlocks(_, _)
SourceBlocks(segs, acc) ==
    IF segs = <<>> THEN (IF acc = <<>> THEN <<>> ELSE <<acc>>)
    ELSE IF Head(segs).kind = "plain" THEN SourceBlocks(Tail(segs), Append(acc, Head(segs)))
         ELSE <<Append(acc, Head(segs))>> \o SourceBlocks(Tail(segs), <<>>)

\* C16: when execute_tool_command returns a list, the list has one outcome
\* per block of the source text, in order, and the outcome of a block without
\* the result-binding statement, or that leaves `execution` unbound, is the
\* "no execution captured" entry.
C16_OneOutcomePerBlock ==
    (pc = "executed" /\ executions.islist) =>
        LET blocks == SourceBlocks(command.segs, <<>>)
        IN /\ Len(executions.items) = Len(blocks)
           /\ \A i \in 1..Len(blocks) :
                Binding(blocks[i]).kind \in {"plain", "none"}
                    => executions.items[i] = NoExecutionCaptured

\* C17: a step in which the tool cannot be loaded returns the step-level error
\* string without running a block and leaves Registry and Namespace as they
\* were; recording the step stores the error string as its result.
C17_LoadFailureIsStepLevel ==
    [][/\ (pc = "call" /\ executions' = ToolLoadError) =>
            /\ pc' = "executed"
            /\ blocks_run' = 0
            /\ fragments' = fragments
            /\ global_variables' = global_variables
       /\ (pc = "executed" /\ executions = ToolLoadError /\ pc' = "verify") =>
            /\ blocks_run = 0
            /\ step_count \in DOMAIN actions'
            /\ actions'[step_count].result = ToolLoadError
            /\ actions'[step_count].tool_name = tool_name
            /\ fragments' = fragments
            /\ global_variables' = global_variables]_vars

\* C17 witness: step 1 failed to load its tool and was recorded; step 2 has
\* been planned.
C17_Witness ==
    /\ pc = "call"
    /\ solves = 1
    /\ step_count = 2
    /\ 1 \in DOMAIN actions
    /\ actions[1].result = ToolLoadError

\* C19: after a step during which no deadline fired is recorded, the semantic type of every Fragment in its
\* results list, at any position, is complete in the Tracker and is in the
\* execution-order history.
C19_EveryFragmentIsTracked ==
    (pc = "verify" /\ executions.islist /\ alarms = 0) =>
        \A i \in 1..Len(executions.items) :
            executions.items[i].tag = "fragment" =>
                /\ workflow_progress[executions.items[i].frag.semantic_type]
                /\ executions.items[i].frag.semantic_type \in Range(semantic_workflow)

\* the percentage to one decimal place, in tenths
Tenths(p) == (p.num * 10) \div p.den

\* C18: get_completion_percentage() is the number of complete types over the
\* number of known types, times 100; it lies in 0..100; it is 0 for a
\* Tracker that knows no type, and 33.3 with one of three known types complete.
C18_CompletionPercentage ==
    LET p == GetCompletionPercentage(workflow_progress)
        complete == DOMAIN semantic_fragments
        known == SemanticTypeSet \cup DOMAIN semantic_fragments
    IN /\ p.den > 0
       /\ p.num * Cardinality(known) = 100 * Cardinality(complete) * p.den
       /\ 0 <= p.num
       /\ p.num <= 100 * p.den
       /\ GetCompletionPercentage(EmptyDict).num = 0
       /\ Tenths(GetCompletionPercentage([t \in {SPEC, HAMILTONIAN, ANSATZ} |-> t = SPEC])) = 333

\* C18 witness: three types are complete, one of them outside the Dependency
\* Graph, so that eight types are known.
C18_Witness ==
    /\ Len(semantic_workflow) = 3
    /\ "unknown" \in DOMAIN workflow_progress
    /\ GetCompletionPercentage(workflow_progress) = Ratio(300, 8)
    /\ Tenths(GetCompletionPercentage(workflow_progress)) = 375

\* a can be reached from b along at most n dependency edges of the table
RECURSIVE ReachesWithin(_, _, _, _)
ReachesWithin(table, b, a, n) ==
    /\ n > 0
    /\ b \in DOMAIN table
    /\ \/ a \in Range(table[b])
       \/ \E d \in Range(table[b]) : ReachesWithin(table, d, a, n - 1)

IsCyclic(table) ==
    \E t \in DOMAIN table : ReachesWithin(table, t, t, Cardinality(DOMAIN table))

\* C20: a Registry over a dependency table that has a cycle is never used:
\* no fragment is registered against such a table.
C20_CyclicTableIsRejected ==
    IsCyclic(dependencies) => (register_calls = 0 /\ fragments = <<>>)

\* C21: every write to the Registry or to the Session Namespace happens while
\* no block deadline is armed: after the deadline of the current block was
\* disarmed and before the deadline of the next block is armed.
C21_WritesOnlyWhileDisarmed ==
    [][(fragments' # fragments \/ global_variables' # global_variables) => ~alarm]_vars

\* exec(fragment.code) raised in the current block, and no deadline fired
CaptureRaised ==
    /\ pc = "post"
    /\ registering # NoFragment
    /\ registering[1].code.raises
    /\ ~fired

\* C22: when the code of a produced fragment raises during variable capture,
\* the Registry and the Session Namespace are as they were before the block,
\* and the Registry does not hold that fragment, whose captured bindings were
\* never written.
C22_FailedCaptureLeavesNoTrace ==
    CaptureRaised =>
        /\ fragments = block_pre.fragments
        /\ global_variables = block_pre.global_variables
        /\ \A i \in 1..Len(fragments) : fragments[i] # registering[1]

\* the context execute_with_timeout would build for a block in this state
BlockContext ==
    EnhancedContext(ToolObject(GENERALIST_TOOL), global_variables,
                    LocalContext(ToolObject(GENERALIST_TOOL)), BuildSemanticContext(fragments))

\* the names `<type>` and `<type>_fragment` of the registered types
AliasNames == Registered \cup {t \o "_fragment" : t \in Registered}

\* the registered type an alias name stands for
AliasedType(n) == CHOOSE t \in Registered : n \in {t, t \o "_fragment"}

\* C23: in the context built for a block, a name the Registry exposes holds
\* the exposed value, also when it is the alias of a registered fragment; an
\* alias that is not exposed holds its fragment, also when the Session
\* Namespace has the name.
C23_ExposedOverAliasOverNamespace ==
    LET exposed == GetAvailableVariables(fragments)
    IN /\ \A n \in DOMAIN exposed : BlockContext[n] = Value(exposed[n])
       /\ \A n \in AliasNames \ DOMAIN exposed :
            BlockContext[n] = FragmentObject(GetFragment(fragments, AliasedType(n))[1])

\* the distinct types of the list handed to the sort
SortInputTypes == {sort_input[i].semantic_type : i \in 1..Len(sort_input)}

\* every remaining type has a dependency that is still remaining
NoneReady(remaining) ==
    \A t \in remaining :
        \E d \in Range(IF t \in DOMAIN dependencies THEN dependencies[t] ELSE <<>>) :
            d \in remaining

\* C24: topological_sort terminates for every input list and every dependency
\* table, cyclic ones included: every round removes at least one remaining
\* type and appends what it removes; when no type is ready it removes exactly
\* the lexicographically smallest remaining type; and the result holds every
\* distinct input type exactly once.
C24_SortTerminates ==
    /\ [][(sort_pc = "sorting" /\ sort_remaining # {}) =>
            LET removed == sort_remaining \ sort_remaining'
            IN /\ sort_remaining' \subseteq sort_remaining
               /\ removed # {}
               /\ Len(sort_result') = Len(sort_result) + Cardinality(removed)
               /\ Range(sort_result') = Range(sort_result) \cup removed
               /\ NoneReady(sort_remaining) =>
                    /\ Cardinality(removed) = 1
                    /\ \A t \in removed : \A u \in sort_remaining : LexRank(t) <= LexRank(u)]_sort_vars
    /\ [](sort_pc = "done" =>
            /\ Range(sort_result) = SortInputTypes
            /\ Len(sort_result) = Cardinality(SortInputTypes))
    /\ (sort_pc = "sorting") ~> (sort_pc = "done")

\* C24 witness: over a table in which spec and hamiltonian depend on each
\* other, a list that names hamiltonian twice and spec once was sorted: no
\* type was ready, hamiltonian, the smaller, was taken first.
C24_Witness ==
    /\ sort_pc = "done"
    /\ dependencies[SPEC] = <<HAMILTONIAN>>
    /\ dependencies[HAMILTONIAN] = <<SPEC>>
    /\ Len(sort_input) = 3
    /\ sort_input[1].semantic_type = HAMILTONIAN
    /\ sort_input[2].semantic_type = HAMILTONIAN
    /\ sort_input[3].semantic_type = SPEC
    /\ sort_result = <<HAMILTONIAN, SPEC>>
    /\ Len(sort_output) = 2

\* s is the beginning of t
IsPrefix(s, t) == Len(s) <= Len(t) /\ \A i \in 1..Len(s) : t[i] = s[i]

\* C25: the execution-order history holds each type at most once and exactly
\* the types produced so far; a call never moves or removes an entry: it
\* leaves the history as it is when the type was produced before, and appends
\* the type when it is produced for the first time.
C25_HistoryKeepsFirstOccurrence ==
    /\ [](/\ \A i, j \in 1..Len(semantic_workflow) :
                semantic_workflow[i] = semantic_workflow[j] => i = j
          /\ Range(semantic_workflow) = DOMAIN semantic_fragments)
    /\ [][/\ IsPrefix(semantic_workflow, semantic_workflow')
          /\ Len(semantic_workflow') <= Len(semantic_workflow) + 1
          /\ DOMAIN semantic_fragments' = DOMAIN semantic_fragments =>
                semantic_workflow' = semantic_workflow]_vars

\* C25 witness: spec was produced at step 1 and again at step 2, hamiltonian
\* was produced too; spec is in the history once, before hamiltonian.
C25_Witness ==
    /\ semantic_workflow = <<SPEC, HAMILTONIAN>>
    /\ {1, 2} \subseteq DOMAIN actions
    /\ actions[1].command = GeneratedCommand(SPEC)
    /\ actions[2].command = GeneratedCommand(SPEC)

\* C26: every fragment, however it was constructed, has its primary variable
\* among its provides.
C26_PrimaryVariableIsProvided ==
    \A i \in 1..Len(fragments) :
        fragments[i].variable_name \in Range(fragments[i].provides)

\* what ends the step loop
StopReasons == {"stop", "invalid_tool", "tool_not_available", "max_steps", "max_time"}

\* how far the block loop of execute_tool_command is from its end: the blocks
\* left count most, then how far the current block is from its end
BlockLoopRank ==
    10 * Len(command_blocks) +
        CASE pc = "next" -> 9
          [] pc = "armed" -> 8
          [] pc = "registered" -> 7
          [] pc = "merging" -> 6 - merge_idx
          [] pc = "post" -> 2

\* how far one pass through the body of the step loop is from its end
BodyRank ==
    CASE pc = "loop" -> 10 * MaxPlanned + 30
      [] pc = "call" -> 10 * MaxPlanned + 20
      [] pc = "executed" -> 1
      [] pc = "verify" -> 0
      [] OTHER -> 2 + BlockLoopRank

\* a natural number that every step inside the step loop makes smaller
LoopRank == (MaxSteps + 1 - step_count) * (10 * MaxPlanned + 40) + BodyRank

C28_RegistryIsDependencyClosed ==
    \A t \in Registered : \A d \in Range(DependenciesGet(t)) : d \in Registered

\* the tools whose result is in the Registry
ToolSources == {fragments[i].tool_source : i \in 1..Len(fragments)}

\* C29: every type of the Dependency Graph is produced through the legacy
\* adapter by the tool the tool-to-type table names for it: once the adapted
\* result of a tool of the table is registered, every type the table gives
\* for that tool is complete (estimator as well as optimizer for the optimizer
\* tool).
C29_EveryMappedTypeIsProduced ==
    \A tool \in ToolSources \cap MappedTools :
        Range(TOOL_SEMANTIC_MAPPING[tool].types) \subseteq Registered

\* the session state a solver carries between solve() calls
session_state == <<fragments, last_registered, register_order, global_variables,
                   actions, semantic_fragments, semantic_workflow, workflow_progress>>

\* C30: solve() does not reset the session: the step that starts a solve()
\* call leaves the Registry, the Session Namespace and the Memory (actions,
\* fragments, execution order, progress map) exactly as the previous call left
\* them, and a second call starts its step loop on that state.
C30_SolveKeepsSessionState ==
    [][(pc = "idle" /\ pc' = "loop") => session_state' = session_state]_vars

C30_Witness ==
    /\ solves = 2
    /\ pc = "loop"
    /\ step_count = 1
    /\ fragments # <<>>
    /\ global_variables # EmptyDict
    /\ semantic_fragments # EmptyDict
    /\ semantic_workflow # <<>>

====
